---- MODULE Spec2Model ----
(***************************************************************************)
(* Model of quick-todo: InputProcessor and TodoStorage                     *)
(* (src/scripts/storage.js) and the TodoApp tab logic                      *)
(* (src/unnamed/part_000, scripts/main.js).                                *)
(*                                                                         *)
(* Representation of JavaScript values                                     *)
(*   string (text)   sequence of one-character strings; NotAString stands  *)
(*                   for any value whose typeof is not 'string'            *)
(*   id, timestamps  naturals; 0 stands for a falsy value ('' / null)      *)
(*   object          record holding exactly the properties that are        *)
(*                   present, so a missing property is a missing field     *)
(*   null / number   the records JsNull / JsNumber (field jstype)          *)
(*   JSON text       record [syntax, indent, value]                        *)
(* A property `items` whose value is not an array is written as the field  *)
(* items_nonarray, so Array.isArray(x.items) is "items" \in DOMAIN x.      *)
(***************************************************************************)
EXTENDS Integers, Sequences, FiniteSets, TLC

(***************************************************************************)
(* Program constants                                                       *)
(***************************************************************************)
MaxTextLen == 200
QuotaThreshold == 100
KeepRecent == 50
STORAGE_KEY == "quickTodoList"
TestKey == "__storage_test__"
VERSION == "1.0.0"
DefaultSettings == [theme |-> "auto", animations |-> TRUE]

(***************************************************************************)
(* Bounds of the model                                                     *)
(***************************************************************************)
MaxIds == 3
MaxClock == 2
MaxRawLen == 3

JsNull == [jstype |-> "null"]
JsNumber == [jstype |-> "number"]
NotAString == <<"NaS">>
WhiteSpace == {" ", "\t", "\n"}

JsArray(s) == [jstype |-> "array", elems |-> s]
IsObject(v) == "jstype" \notin DOMAIN v
Has(obj, f) == f \in DOMAIN obj
Min(a, b) == IF a < b THEN a ELSE b

(***************************************************************************)
(* InputProcessor.sanitizeItem: text.trim().replace(/\s+/g,' ').slice(0,200)*)
(***************************************************************************)
IsWs(c) == c \in WhiteSpace

\* String.prototype.trim
Trim(s) ==
  IF \A i \in 1..Len(s) : IsWs(s[i]) THEN <<>>
  ELSE LET first == CHOOSE i \in 1..Len(s) :
                      ~IsWs(s[i]) /\ \A j \in 1..(i - 1) : IsWs(s[j])
           last == CHOOSE i \in 1..Len(s) :
                      ~IsWs(s[i]) /\ \A j \in (i + 1)..Len(s) : IsWs(s[j])
       IN SubSeq(s, first, last)

KeepChar(p) == ~(IsWs(p[1]) /\ p[2])

\* replace(/\s+/g, ' '): every maximal run of whitespace becomes one space
CollapseWs(s) ==
  LET marked == [i \in 1..Len(s) |-> <<s[i], i > 1 /\ IsWs(s[i - 1])>>]
      kept == SelectSeq(marked, KeepChar)
  IN [i \in 1..Len(kept) |-> IF IsWs(kept[i][1]) THEN " " ELSE kept[i][1]]

\* slice(0, n)
Slice(s, n) == SubSeq(s, 1, Min(n, Len(s)))

sanitizeItem(text) ==
  IF text = NotAString \/ text = <<>> THEN <<>>
  ELSE Slice(CollapseWs(Trim(text)), MaxTextLen)

(***************************************************************************)
(* InputProcessor.parseInput. A character is a one-element string; the two *)
(* delimiters outside ASCII are written by their code points.              *)
(***************************************************************************)
\* the characters of the class [,\uFF0C\u3001\uFF0C] (the source writes the
\* fullwidth comma twice, once literally and once as an escape)
Delimiters == {",", "U+FF0C", "U+3001"}

HasDelimiter(text) == \E i \in 1..Len(text) : text[i] \in Delimiters

\* text.split(/[...]/): the segments between the delimiters, empty ones kept
RECURSIVE Split(_)
Split(text) ==
  IF ~HasDelimiter(text) THEN <<text>>
  ELSE LET d == CHOOSE i \in 1..Len(text) :
                  text[i] \in Delimiters /\ \A j \in 1..(i - 1) : text[j] \notin Delimiters
       IN <<SubSeq(text, 1, d - 1)>> \o Split(SubSeq(text, d + 1, Len(text)))

NonEmptyString(s) == Len(s) > 0

\* parseInput without its filter: empty segments are kept
parseInput_KeepsEmpty(text) ==
  IF text = NotAString \/ text = <<>> THEN <<>>
  ELSE LET items == IF HasDelimiter(text) THEN Split(text) ELSE <<text>>
       IN [i \in 1..Len(items) |-> sanitizeItem(items[i])]

parseInput(text) ==
  IF text = NotAString \/ text = <<>> THEN <<>>
  ELSE LET items == IF HasDelimiter(text) THEN Split(text) ELSE <<text>>
       IN SelectSeq([i \in 1..Len(items) |-> sanitizeItem(items[i])], NonEmptyString)

(***************************************************************************)
(* TodoStorage.getDefaultData / validateItem                               *)
(***************************************************************************)
getDefaultData(t) ==
  [version |-> VERSION, items |-> <<>>, lastUpdated |-> t,
   settings |-> DefaultSettings]

\* {...a, ...b}: the properties of b over those of a
Spread(a, b) ==
  [f \in (DOMAIN a) \cup (DOMAIN b) |-> IF f \in DOMAIN b THEN b[f] ELSE a[f]]

NeedsId(item) == IsObject(item) /\ ~(Has(item, "id") /\ item.id # 0)

\* validateItem stamping every item with the current time, as if
\* `createdAt: new Date().toISOString()` had been written
validateItem_StampsNow(item, uuid, t) ==
  IF ~IsObject(item) THEN JsNull
  ELSE [id |-> IF Has(item, "id") /\ item.id # 0 THEN item.id ELSE uuid,
        text |-> sanitizeItem(IF Has(item, "text") THEN item.text ELSE <<>>),
        completed |-> Has(item, "completed") /\ item.completed,
        createdAt |-> t]

\* validateItem(item) where uuid is the value generateUUID() would return
\* and t the current time
validateItem(item, uuid, t) ==
  IF ~IsObject(item) THEN JsNull
  ELSE [id |-> IF Has(item, "id") /\ item.id # 0 THEN item.id ELSE uuid,
        text |-> sanitizeItem(IF Has(item, "text") THEN item.text ELSE <<>>),
        completed |-> Has(item, "completed") /\ item.completed,
        createdAt |-> IF Has(item, "createdAt") /\ item.createdAt # 0
                      THEN item.createdAt ELSE t]

IsValidated(v) == v # JsNull

\* items.map(item => this.validateItem(item)).filter(Boolean); generateUUID
\* is called once for each object without a truthy id, nid being the first
\* unused identifier
ValidateItems(raw, nid, t) ==
  LET n == Len(raw)
      idx == [i \in 1..n |-> i]
      NeedsAt(i) == NeedsId(raw[i])
      needing == SelectSeq(idx, NeedsAt)
      Rank(i) == CHOOSE k \in 1..Len(needing) : needing[k] = i
      mapped == [i \in 1..n |->
                   validateItem(raw[i],
                                IF NeedsId(raw[i]) THEN nid + Rank(i) - 1
                                ELSE 0, t)]
  IN [items |-> SelectSeq(mapped, IsValidated), nid |-> nid + Len(needing)]

(***************************************************************************)
(* JSON.stringify / JSON.parse and the localStorage value                  *)
(***************************************************************************)
NoValue == [syntax |-> "none"]
BadJson == [syntax |-> "bad"]
Stringify(v, indent) == [syntax |-> "ok", indent |-> indent, value |-> v]
Parses(txt) == txt.syntax = "ok"
Parse(txt) == txt.value

\* Array.isArray(x.items) for an object or null x
HasItemsArray(x) == IsObject(x) /\ Has(x, "items")

(***************************************************************************)
(* TodoStorage.load: the loaded document and the next unused identifier    *)
(***************************************************************************)
\* {...this.getDefaultData(), ...parsed, items: <validated items v>}
Loaded(parsed, v, t) ==
  [data |-> Spread(Spread(getDefaultData(t), parsed), [items |-> v.items]),
   nid |-> v.nid]

\* load returning the parsed items as they are stored
Load_TrustsStored(st, nid, t) ==
  IF st = NoValue THEN [data |-> getDefaultData(t), nid |-> nid]
  ELSE IF ~Parses(st) THEN [data |-> getDefaultData(t), nid |-> nid]
  ELSE IF ~HasItemsArray(Parse(st)) THEN [data |-> getDefaultData(t), nid |-> nid]
  ELSE [data |-> Spread(getDefaultData(t), Parse(st)), nid |-> nid]

Load(st, nid, t) ==
  IF st = NoValue THEN [data |-> getDefaultData(t), nid |-> nid]
  ELSE IF ~Parses(st) THEN [data |-> getDefaultData(t), nid |-> nid]
  ELSE IF ~HasItemsArray(Parse(st)) THEN [data |-> getDefaultData(t), nid |-> nid]
  ELSE Loaded(Parse(st), ValidateItems(Parse(st).items, nid, t), t)

(***************************************************************************)
(* TodoStorage.handleStorageQuotaExceeded and TodoStorage.save             *)
(* fm: outcome of save's localStorage.setItem ("ok", "quota": throws       *)
(* QuotaExceededError, "error": throws anything else); rm: outcome of the  *)
(* recovery's setItem ("ok" or "error").                                   *)
(***************************************************************************)
WriteModes == {"ok", "quota", "error"}
RecoveryModes == {"ok", "error"}

\* the outcomes of the two writes; the recovery runs only after a quota failure
Outcomes ==
  {o \in [fm : WriteModes, rm : RecoveryModes] : o.fm # "quota" => o.rm = "ok"}

\* Array.prototype.sort((a, b) => new Date(b.createdAt) - new Date(a.createdAt)):
\* descending by createdAt, stable (ECMAScript 2019), so items with equal
\* createdAt keep their relative order
RECURSIVE Buckets(_, _)
Buckets(items, keys) ==
  IF keys = {} THEN <<>>
  ELSE LET m == CHOOSE k \in keys : \A o \in keys : o <= k
           CreatedAtM(item) == item.createdAt = m
       IN SelectSeq(items, CreatedAtM) \o Buckets(items, keys \ {m})

SortByCreatedDesc(items) ==
  Buckets(items, {items[i].createdAt : i \in 1..Len(items)})

\* the recovery pruning from QuotaThreshold items on (>= instead of >)
PruneAndWrite_AtThreshold(st, l, rm) ==
  IF Len(l.data.items) >= QuotaThreshold
  THEN [store |-> IF rm = "ok"
                  THEN Stringify([l.data EXCEPT !.items =
                                    Slice(SortByCreatedDesc(@), KeepRecent)], 0)
                  ELSE st,
        nid |-> l.nid, loads |-> 1, writes |-> 1]
  ELSE [store |-> st, nid |-> l.nid, loads |-> 1, writes |-> 0]

\* the recovery without its sort: the first KeepRecent items in stored order
PruneAndWrite_NoSort(st, l, rm) ==
  IF Len(l.data.items) > QuotaThreshold
  THEN [store |-> IF rm = "ok"
                  THEN Stringify([l.data EXCEPT !.items = Slice(@, KeepRecent)], 0)
                  ELSE st,
        nid |-> l.nid, loads |-> 1, writes |-> 1]
  ELSE [store |-> st, nid |-> l.nid, loads |-> 1, writes |-> 0]

\* the body of handleStorageQuotaExceeded after const data = this.load()
PruneAndWrite(st, l, rm) ==
  IF Len(l.data.items) > QuotaThreshold
  THEN [store |-> IF rm = "ok"
                  THEN Stringify([l.data EXCEPT !.items =
                                    Slice(SortByCreatedDesc(@), KeepRecent)], 0)
                  ELSE st,
        nid |-> l.nid, loads |-> 1, writes |-> 1]
  ELSE [store |-> st, nid |-> l.nid, loads |-> 1, writes |-> 0]

handleStorageQuotaExceeded(st, nid, t, rm) ==
  PruneAndWrite(st, Load(st, nid, t), rm)

\* the catch block of save, h being the effect of handleStorageQuotaExceeded
SaveFailedOnQuota(h) ==
  [store |-> h.store, ok |-> FALSE, nid |-> h.nid, loads |-> h.loads,
   writes |-> 1 + h.writes]

\* save without the check of its argument
Save_NoValidation(st, data, nid, t, fm, rm) ==
  IF fm = "ok"
  THEN [store |-> Stringify(Spread(data, [lastUpdated |-> t, version |-> VERSION]), 0),
        ok |-> TRUE, nid |-> nid, loads |-> 0, writes |-> 1]
  ELSE IF fm = "quota"
  THEN SaveFailedOnQuota(handleStorageQuotaExceeded(st, nid, t, rm))
  ELSE [store |-> st, ok |-> FALSE, nid |-> nid, loads |-> 0, writes |-> 1]

\* save whose recovery prunes the document being saved instead of reloading
\* the stored one
Save_PrunesArgument(st, data, nid, t, fm, rm) ==
  IF ~HasItemsArray(data)
  THEN [store |-> st, ok |-> FALSE, nid |-> nid, loads |-> 0, writes |-> 0]
  ELSE IF fm = "ok"
  THEN [store |-> Stringify(Spread(data, [lastUpdated |-> t, version |-> VERSION]), 0),
        ok |-> TRUE, nid |-> nid, loads |-> 0, writes |-> 1]
  ELSE IF fm = "quota"
  THEN SaveFailedOnQuota(PruneAndWrite(st, [data |-> data, nid |-> nid], rm))
  ELSE [store |-> st, ok |-> FALSE, nid |-> nid, loads |-> 0, writes |-> 1]

Save(st, data, nid, t, fm, rm) ==
  IF ~HasItemsArray(data)
  THEN [store |-> st, ok |-> FALSE, nid |-> nid, loads |-> 0, writes |-> 0]
  ELSE IF fm = "ok"
  THEN [store |-> Stringify(Spread(data, [lastUpdated |-> t, version |-> VERSION]), 0),
        ok |-> TRUE, nid |-> nid, loads |-> 0, writes |-> 1]
  ELSE IF fm = "quota"
  THEN SaveFailedOnQuota(handleStorageQuotaExceeded(st, nid, t, rm))
  ELSE [store |-> st, ok |-> FALSE, nid |-> nid, loads |-> 0, writes |-> 1]

(***************************************************************************)
(* Return values                                                           *)
(***************************************************************************)
RetNull == [kind |-> "null"]
RetThrow == [kind |-> "throw"]
RetBool(b) == [kind |-> "bool", val |-> b]
RetItem(i) == [kind |-> "item", val |-> i]
RetItems(s) == [kind |-> "items", val |-> s]
RetDoc(d) == [kind |-> "doc", val |-> d]
RetText(x) == [kind |-> "text", val |-> x]

\* The effect of one call: the new stored value, the next unused identifier,
\* the return value, the numbers of TodoStorage.load calls, TodoStorage.save
\* calls and localStorage.setItem calls it made, and the items it built
Effect(st, nid, ret, loads, saves, writes, made) ==
  [store |-> st, nid |-> nid, ret |-> ret, loads |-> loads, saves |-> saves,
   writes |-> writes, made |-> made]

\* The effect of a call that made `loads` loads and then one save of effect s,
\* returning onOk if the save succeeded and onFail if not
AfterSave(s, onOk, onFail, loads, made) ==
  Effect(s.store, s.nid, IF s.ok THEN onOk ELSE onFail, loads + s.loads, 1,
         s.writes, made)

(***************************************************************************)
(* TodoStorage.addItem / addItems                                          *)
(* In the operations below l is the result of this.load(), Load(st, nid, t)*)
(* where nid is the next unused identifier at the call.                    *)
(***************************************************************************)
NewItem(id, text, t) ==
  [id |-> id, text |-> text, completed |-> FALSE, createdAt |-> t]

\* addItem returning the new item whatever save returned
AddSanitized_IgnoresSave(st, nid, l, t, sanitized, fm, rm) ==
  IF sanitized = <<>> THEN Effect(st, nid, RetNull, 0, 0, 0, <<>>)
  ELSE AfterSave(Save(st, [l.data EXCEPT !.items =
                             Append(@, NewItem(l.nid, sanitized, t))],
                      l.nid + 1, t, fm, rm),
                 RetItem(NewItem(l.nid, sanitized, t)),
                 RetItem(NewItem(l.nid, sanitized, t)), 1,
                 <<NewItem(l.nid, sanitized, t)>>)

\* addItem after const sanitized = InputProcessor.sanitizeItem(text)
AddSanitized(st, nid, l, t, sanitized, fm, rm) ==
  IF sanitized = <<>> THEN Effect(st, nid, RetNull, 0, 0, 0, <<>>)
  ELSE AfterSave(Save(st, [l.data EXCEPT !.items =
                             Append(@, NewItem(l.nid, sanitized, t))],
                      l.nid + 1, t, fm, rm),
                 RetItem(NewItem(l.nid, sanitized, t)), RetNull, 1,
                 <<NewItem(l.nid, sanitized, t)>>)

addItem(st, nid, l, t, text, fm, rm) ==
  AddSanitized(st, nid, l, t, sanitizeItem(text), fm, rm)

IsNonEmpty(s) == s # <<>>

\* the texts of the batch that are kept, sanitized
SanitizedKept(texts) ==
  SelectSeq([i \in 1..Len(texts) |-> sanitizeItem(texts[i])], IsNonEmpty)

\* the items the loop of addItems builds from the kept texts
NewItems(kept, nid, t) ==
  [k \in 1..Len(kept) |-> NewItem(nid + k - 1, kept[k], t)]

\* addItems saving inside its loop, once for each item built
AddBuilt_SavesEachItem(st, l, t, newItems, fm, rm) ==
  IF Len(newItems) > 0
  THEN [AfterSave(Save(st, [l.data EXCEPT !.items = @ \o newItems],
                       l.nid + Len(newItems), t, fm, rm),
                  RetItems(newItems), RetItems(newItems), 1, newItems)
          EXCEPT !.saves = Len(newItems), !.writes = @ + Len(newItems) - 1]
  ELSE Effect(st, l.nid, RetItems(newItems), 1, 0, 0, newItems)

\* addItems after its loop has built newItems
AddBuilt(st, l, t, newItems, fm, rm) ==
  IF Len(newItems) > 0
  THEN AfterSave(Save(st, [l.data EXCEPT !.items = @ \o newItems],
                      l.nid + Len(newItems), t, fm, rm),
                 RetItems(newItems), RetItems(newItems), 1, newItems)
  ELSE Effect(st, l.nid, RetItems(newItems), 1, 0, 0, newItems)

\* the argument is JsArray(texts) or a value that is not an array
addItems(st, nid, l, t, textArray, fm, rm) ==
  IF textArray.jstype # "array" THEN Effect(st, nid, RetItems(<<>>), 0, 0, 0, <<>>)
  ELSE AddBuilt(st, l, t, NewItems(SanitizedKept(textArray.elems), l.nid, t),
                fm, rm)

(***************************************************************************)
(* TodoStorage.updateItem / deleteItem / clearAll                          *)
(***************************************************************************)
JsUndefined == [jstype |-> "undefined"]

\* data.items.findIndex(item => item.id === id); 0 stands for -1
FindIndex(items, id) ==
  IF \E i \in 1..Len(items) : items[i].id = id
  THEN CHOOSE i \in 1..Len(items) :
         items[i].id = id /\ \A j \in 1..(i - 1) : items[j].id # id
  ELSE 0

\* the properties an object spread {...updates} copies
OwnProps(updates) == IF IsObject(updates) THEN updates ELSE <<>>

\* updates.text is truthy
TruthyText(updates) == Has(updates, "text") /\ updates.text # <<>>

\* the merge without the `id` that follows ...updates
MergeUpdates_IdFromUpdates(old, id, updates) ==
  Spread(Spread(old, OwnProps(updates)),
         [text |-> IF TruthyText(updates) THEN sanitizeItem(updates.text)
                   ELSE old.text])

\* {...data.items[itemIndex], ...updates, id, text: ...}
MergeUpdates(old, id, updates) ==
  Spread(Spread(Spread(old, OwnProps(updates)), [id |-> id]),
         [text |-> IF TruthyText(updates) THEN sanitizeItem(updates.text)
                   ELSE old.text])

\* updateItem after data.items[itemIndex] = this.validateItem(updatedItem)
UpdateAt(st, l, t, itemIndex, validated, fm, rm) ==
  AfterSave(Save(st, [l.data EXCEPT !.items[itemIndex] = validated], l.nid, t,
                 fm, rm),
            RetItem(validated), RetNull, 1, <<>>)

\* updateItem saving the loaded document when no item has the id
UpdateFound_SavesWhenMissing(st, l, t, id, itemIndex, updates, fm, rm) ==
  IF itemIndex = 0
  THEN AfterSave(Save(st, l.data, l.nid, t, fm, rm), RetNull, RetNull, 1, <<>>)
  ELSE IF updates \in {JsUndefined, JsNull}
  THEN Effect(st, l.nid, RetThrow, 1, 0, 0, <<>>)
  ELSE UpdateAt(st, l, t, itemIndex,
                validateItem(MergeUpdates(l.data.items[itemIndex], id, updates),
                             l.nid, t),
                fm, rm)

\* updateItem after the findIndex; reading updates.text throws a TypeError
\* when updates is undefined or null
UpdateFound(st, l, t, id, itemIndex, updates, fm, rm) ==
  IF itemIndex = 0 THEN Effect(st, l.nid, RetNull, 1, 0, 0, <<>>)
  ELSE IF updates \in {JsUndefined, JsNull}
  THEN Effect(st, l.nid, RetThrow, 1, 0, 0, <<>>)
  ELSE UpdateAt(st, l, t, itemIndex,
                validateItem(MergeUpdates(l.data.items[itemIndex], id, updates),
                             l.nid, t),
                fm, rm)

updateItem(st, l, t, id, updates, fm, rm) ==
  UpdateFound(st, l, t, id, FindIndex(l.data.items, id), updates, fm, rm)

\* deleteItem saving whether or not the filter removed an item
DeleteFiltered_AlwaysSaves(st, l, t, remaining, fm, rm) ==
  AfterSave(Save(st, [l.data EXCEPT !.items = remaining], l.nid, t, fm, rm),
            RetBool(TRUE), RetBool(FALSE), 1, <<>>)

\* deleteItem after the filter
DeleteFiltered(st, l, t, remaining, fm, rm) ==
  IF Len(remaining) < Len(l.data.items)
  THEN AfterSave(Save(st, [l.data EXCEPT !.items = remaining], l.nid, t, fm, rm),
                 RetBool(TRUE), RetBool(FALSE), 1, <<>>)
  ELSE Effect(st, l.nid, RetBool(FALSE), 1, 0, 0, <<>>)

deleteItem(st, l, t, id, fm, rm) ==
  LET OtherId(item) == item.id # id
  IN DeleteFiltered(st, l, t, SelectSeq(l.data.items, OtherId), fm, rm)

clearAll(st, nid, t, fm, rm) ==
  AfterSave(Save(st, getDefaultData(t), nid, t, fm, rm),
            RetBool(TRUE), RetBool(FALSE), 0, <<>>)

(***************************************************************************)
(* TodoStorage.load and TodoStorage.save called directly                   *)
(***************************************************************************)
\* load() where l is what it returns
loadCall(st, l) == Effect(st, l.nid, RetDoc(l.data), 1, 0, 0, <<>>)

saveCall(st, data, nid, t, fm, rm) ==
  AfterSave(Save(st, data, nid, t, fm, rm), RetBool(TRUE), RetBool(FALSE), 0,
            <<>>)

(***************************************************************************)
(* TodoStorage.exportData / importData / isStorageAvailable                *)
(***************************************************************************)
exportData(st, l) ==
  Effect(st, l.nid, RetText(Stringify(l.data, 2)), 1, 0, 0, <<>>)

\* importData storing the parsed items without validating them
ImportValidated_StoresRaw(st, t, data, v, fm, rm) ==
  AfterSave(Save(st, Spread(getDefaultData(t), data), v.nid, t, fm, rm),
            RetBool(TRUE), RetBool(FALSE), 0, <<>>)

\* importData after the items of the parsed data have been validated to v
ImportValidated(st, t, data, v, fm, rm) ==
  AfterSave(Save(st, Spread(Spread(getDefaultData(t), data), [items |-> v.items]),
                 v.nid, t, fm, rm),
            RetBool(TRUE), RetBool(FALSE), 0, <<>>)

importData(st, nid, t, jsonString, fm, rm) ==
  IF ~Parses(jsonString) THEN Effect(st, nid, RetBool(FALSE), 0, 0, 0, <<>>)
  ELSE IF ~HasItemsArray(Parse(jsonString))
  THEN Effect(st, nid, RetBool(FALSE), 0, 0, 0, <<>>)
  ELSE ImportValidated(st, t, Parse(jsonString),
                       ValidateItems(Parse(jsonString).items, nid, t), fm, rm)

\* setItem and removeItem of the test key; the stored document is untouched
isStorageAvailable(st, nid, fm) ==
  Effect(st, nid, RetBool(fm = "ok"), 0, 0, 1, <<>>)

(***************************************************************************)
(* exportData() of this store handed to importData() of a store that holds *)
(* no value yet                                                            *)
(***************************************************************************)
exportThenImport(l, t, fm, rm) ==
  [importData(NoValue, l.nid, t, Stringify(l.data, 2), fm, rm)
     EXCEPT !.loads = 1 + @]

(***************************************************************************)
(* Inputs                                                                  *)
(***************************************************************************)
Blank == <<" ", "\n">>
TextA == <<"a">>
TextB == <<"b">>
Messy == <<" ", "a", " ", "\t", "b", " ">>
\* 201 characters whose 200th is a space
LongText == [i \in 1..(MaxTextLen + 1) |-> IF i = MaxTextLen THEN " " ELSE "a"]

Texts == {Blank, TextA, LongText, NotAString}
\* the arrays handed to addItems: empty, nothing to keep, one text, and
\* ["a", "", " \n", <not a string>, "b"]
Batches ==
  {JsArray(<<>>), JsArray(<<Blank, NotAString>>), JsArray(<<TextB>>),
   JsArray(<<TextA, <<>>, Blank, NotAString, TextB>>)}

ImportedId == 900 + 1
\* the id of the first item of BigDoc(n)
BigDocId == 1000 + 1
IdArgs == (1..MaxIds) \cup {ImportedId, BigDocId}

Updates ==
  {[completed |-> TRUE], [text |-> Blank],
   [id |-> ImportedId, createdAt |-> 0], JsUndefined}

\* a document with a null entry, an empty object and two objects of one id
MixedDoc ==
  [version |-> "0.9",
   items |-> <<JsNull, <<>>,
               [id |-> ImportedId, text |-> TextA],
               [id |-> ImportedId, text |-> Messy, completed |-> TRUE,
                createdAt |-> 1]>>,
   settings |-> [theme |-> "dark", animations |-> FALSE]]

\* a well-formed document of n items, a third of them created at time 2 and
\* the others at time 1
BigDoc(n) ==
  [version |-> VERSION,
   items |-> [i \in 1..n |-> [id |-> 1000 + i, text |-> TextA,
                               completed |-> FALSE,
                               createdAt |-> IF i % 3 = 0 THEN 2 ELSE 1]],
   lastUpdated |-> 1,
   settings |-> DefaultSettings]

ImportTexts ==
  {BadJson, Stringify([version |-> VERSION], 0),
   Stringify([items_nonarray |-> TRUE], 0), Stringify(MixedDoc, 2),
   Stringify(BigDoc(QuotaThreshold), 0), Stringify(BigDoc(QuotaThreshold + 1), 0)}

\* the items of the stored document, <<>> when there is none
StoredItems(st) ==
  IF Parses(st) /\ HasItemsArray(Parse(st)) THEN Parse(st).items ELSE <<>>

Range(seq) == {seq[i] : i \in 1..Len(seq)}
IdsOf(items) == {items[i].id : i \in 1..Len(items)}

(***************************************************************************)
(* State                                                                   *)
(***************************************************************************)
VARIABLES
  store,    \* localStorage[STORAGE_KEY]: NoValue or a JSON text
  now,      \* the clock read by new Date() and Date.now()
  nextId,   \* the next identifier generateUUID() returns
  last,     \* the last call: operation, arguments, outcome and counts
  data,     \* per tab: this.data of its TodoApp, JsNull while the tab is closed
  inbox,    \* per tab: the keys of the storage events waiting to be handled
  flight    \* per tab: the storage operation between its load and its save

vars == <<store, now, nextId, last, data, inbox, flight>>

\* the browsing contexts that share the localStorage
Tabs == {"A", "B"}

\* no storage operation is in progress
Idle == [op |-> "idle"]

Init ==
  /\ store = NoValue
  /\ now = 1
  /\ nextId = 1
  /\ last = [op |-> "none"]
  /\ data = [tab \in Tabs |-> JsNull]
  /\ inbox = [tab \in Tabs |-> {}]
  /\ flight = [tab \in Tabs |-> Idle]

\* The call op(arg, arg2) had effect e under write outcome fm and recovery
\* outcome rm. Calls are made at successive clock readings.
Call(op, arg, arg2, fm, rm, e) ==
  /\ now <= MaxClock
  /\ e.nid <= MaxIds + 1
  /\ e.writes = 0 => fm = "ok"
  /\ e.writes < 2 => rm = "ok"
  /\ store' = e.store
  /\ nextId' = e.nid
  /\ now' = now + 1
  /\ last' = [op |-> op, arg |-> arg, arg2 |-> arg2, fm |-> fm, rm |-> rm,
              ret |-> e.ret, loads |-> e.loads, saves |-> e.saves,
              writes |-> e.writes, made |-> e.made]
  /\ UNCHANGED <<data, inbox, flight>>

AddItem ==
  LET l == Load(store, nextId, now)
  IN \E text \in Texts, o \in Outcomes :
       Call("addItem", text, JsNull, o.fm, o.rm,
            addItem(store, nextId, l, now, text, o.fm, o.rm))

AddItems ==
  LET l == Load(store, nextId, now)
  IN \E textArray \in Batches \cup {JsNull}, o \in Outcomes :
       Call("addItems", textArray, JsNull, o.fm, o.rm,
            addItems(store, nextId, l, now, textArray, o.fm, o.rm))

UpdateItem ==
  LET l == Load(store, nextId, now)
  IN \E id \in IdArgs, updates \in Updates, o \in Outcomes :
       Call("updateItem", id, updates, o.fm, o.rm,
            updateItem(store, l, now, id, updates, o.fm, o.rm))

DeleteItem ==
  LET l == Load(store, nextId, now)
  IN \E id \in IdArgs, o \in Outcomes :
       Call("deleteItem", id, JsNull, o.fm, o.rm,
            deleteItem(store, l, now, id, o.fm, o.rm))

ClearAll ==
  \E o \in Outcomes :
    Call("clearAll", JsNull, JsNull, o.fm, o.rm,
         clearAll(store, nextId, now, o.fm, o.rm))

ImportData ==
  \E jsonString \in ImportTexts, o \in Outcomes :
    Call("importData", jsonString, JsNull, o.fm, o.rm,
         importData(store, nextId, now, jsonString, o.fm, o.rm))

ExportData ==
  Call("exportData", JsNull, JsNull, "ok", "ok",
       exportData(store, Load(store, nextId, now)))

ExportThenImport ==
  \E o \in Outcomes :
    Call("exportThenImport", JsNull, JsNull, o.fm, o.rm,
         exportThenImport(Load(store, nextId, now), now, o.fm, o.rm))

Next ==
  \/ AddItem
  \/ AddItems
  \/ UpdateItem
  \/ DeleteItem
  \/ ClearAll
  \/ ImportData
  \/ ExportData
  \/ ExportThenImport

Spec == Init /\ [][Next]_vars

(***************************************************************************)
(* Tabs: one TodoApp per tab over the shared localStorage                  *)
(* (src/unnamed/part_000). A handler runs to completion inside its tab,    *)
(* but the tabs run in parallel, so another tab's storage accesses can     *)
(* fall between the load and the save of a storage operation. A successful *)
(* setItem sends a storage event carrying its key to every other open tab. *)
(***************************************************************************)
IsOpen(tab) == data[tab] # JsNull

\* the texts typed into the input field
CommaText == <<" ", "a", "U+3001", " ", ",", "b">>
InputTexts == {TextA, CommaText, Blank}

\* a storage event with key `key` is queued in every open tab but `tab`
Notify(tab, key, sent) ==
  [u \in Tabs |-> IF sent /\ u # tab /\ IsOpen(u) THEN inbox[u] \cup {key}
                  ELSE inbox[u]]

\* some setItem of a save of effect s under fm and rm stored a value
Wrote(s, fm, rm) == (s.writes >= 1 /\ fm = "ok") \/ (s.writes = 2 /\ rm = "ok")

\* the rest of the storage operation f after its this.load(), run against
\* the stored value st as if the load had been made against the stored value
\* again
Resume_LoadsAgain(f, st, fm, rm) ==
  IF f.op = "addItems"
  THEN addItems(st, f.nid, Load(st, f.nid, f.at), f.at, f.arg, fm, rm)
  ELSE IF f.op = "updateItem"
  THEN updateItem(st, Load(st, f.nid, f.at), f.at, f.arg, f.arg2, fm, rm)
  ELSE deleteItem(st, Load(st, f.nid, f.at), f.at, f.arg, fm, rm)

\* the rest of the storage operation f after its this.load() returned f.l,
\* run against the stored value st
Resume(f, st, fm, rm) ==
  IF f.op = "addItems" THEN addItems(st, f.nid, f.l, f.at, f.arg, fm, rm)
  ELSE IF f.op = "updateItem"
  THEN updateItem(st, f.l, f.at, f.arg, f.arg2, fm, rm)
  ELSE deleteItem(st, f.l, f.at, f.arg, fm, rm)

\* the handler goes on to this.loadData() after the storage operation
\* returned ret
Reloads(op, ret) ==
  IF op = "addItems" THEN Len(ret.val) > 0
  ELSE IF op = "updateItem" THEN ret.kind = "item"
  ELSE ret = RetBool(TRUE)

\* this.data after handleStorageChange(event) with event.key = key
handleStorageChange_AnyKey(d, key, st, nid, t) == Load(st, nid, t).data

handleStorageChange(d, key, st, nid, t) ==
  IF key = STORAGE_KEY THEN Load(st, nid, t).data ELSE d

\* DOMContentLoaded: isStorageAvailable(), then new TodoApp() whose init()
\* loads the data
OpenTab(tab) ==
  /\ ~IsOpen(tab)
  /\ \E fm \in {"ok", "error"} :
       /\ inbox' = Notify(tab, TestKey, isStorageAvailable(store, nextId, fm).ret.val)
       /\ last' = [op |-> "open", tab |-> tab, arg |-> fm]
  /\ data' = [data EXCEPT ![tab] = Load(store, nextId, now).data]
  /\ nextId' = Load(store, nextId, now).nid
  /\ UNCHANGED <<store, now, flight>>

\* a handler of `tab` starts the storage operation op(arg, arg2): the load,
\* and everything up to the save; an operation that returns before its save
\* is over at once
Begin(tab, op, arg, arg2, f) ==
  /\ now <= MaxClock
  /\ Resume(f, store, "ok", "ok").nid <= MaxIds + 1
  /\ nextId' = Resume(f, store, "ok", "ok").nid
  /\ now' = now + 1
  /\ flight' = [flight EXCEPT ![tab] =
                  IF Resume(f, store, "ok", "ok").saves = 0 THEN Idle ELSE f]
  /\ last' = [op |-> "begin", tab |-> tab, arg |-> op]
  /\ UNCHANGED <<store, data, inbox>>

InFlight(op, arg, arg2) ==
  [op |-> op, arg |-> arg, arg2 |-> arg2, l |-> Load(store, nextId, now),
   nid |-> nextId, at |-> now]

\* addTodos() up to the save of TodoStorage.addItems
AddTodos(tab) ==
  /\ IsOpen(tab)
  /\ flight[tab] = Idle
  /\ \E value \in InputTexts :
       /\ Trim(value) # <<>>
       /\ Len(parseInput(Trim(value))) > 0
       /\ Begin(tab, "addItems", JsArray(parseInput(Trim(value))), JsNull,
                InFlight("addItems", JsArray(parseInput(Trim(value))), JsNull))

\* the rendered items the user clicks: those whose id is one of IdArgs
Clickable(items) == {i \in 1..Len(items) : items[i].id \in IdArgs}

\* toggleTodo(id) up to the save of TodoStorage.updateItem
ToggleTodo(tab) ==
  /\ IsOpen(tab)
  /\ flight[tab] = Idle
  /\ \E i \in Clickable(data[tab].items) :
       Begin(tab, "updateItem", data[tab].items[i].id,
             [completed |-> ~data[tab].items[i].completed],
             InFlight("updateItem", data[tab].items[i].id,
                      [completed |-> ~data[tab].items[i].completed]))

\* deleteTodo(id) up to the save of TodoStorage.deleteItem
DeleteTodo(tab) ==
  /\ IsOpen(tab)
  /\ flight[tab] = Idle
  /\ \E i \in Clickable(data[tab].items) :
       Begin(tab, "deleteItem", data[tab].items[i].id, JsNull,
             InFlight("deleteItem", data[tab].items[i].id, JsNull))

\* the save of the storage operation in progress, and the rest of its handler
Finished(tab, f, fm, rm, e) ==
  /\ e.writes < 2 => rm = "ok"
  /\ store' = e.store
  /\ data' = [data EXCEPT ![tab] =
                IF Reloads(f.op, e.ret) THEN Load(e.store, nextId, now).data
                ELSE @]
  /\ inbox' = Notify(tab, STORAGE_KEY, Wrote(e, fm, rm))
  /\ flight' = [flight EXCEPT ![tab] = Idle]
  /\ last' = [op |-> "finish", tab |-> tab, arg |-> f.op, fm |-> fm, rm |-> rm,
              ret |-> e.ret, made |-> e.made,
              unseen |-> IdsOf(StoredItems(store)) \ IdsOf(f.l.data.items)]
  /\ UNCHANGED <<now, nextId>>

Finish(tab) ==
  /\ flight[tab] # Idle
  /\ \E o \in Outcomes :
       Finished(tab, flight[tab], o.fm, o.rm, Resume(flight[tab], store, o.fm, o.rm))

\* handleClearAll() once the user has confirmed
Cleared(tab, fm, rm, e) ==
  /\ now <= MaxClock
  /\ e.writes < 2 => rm = "ok"
  /\ store' = e.store
  /\ data' = [data EXCEPT ![tab] = Load(e.store, nextId, now).data]
  /\ inbox' = Notify(tab, STORAGE_KEY, Wrote(e, fm, rm))
  /\ now' = now + 1
  /\ last' = [op |-> "handleClearAll", tab |-> tab, arg |-> fm]
  /\ UNCHANGED <<nextId, flight>>

HandleClearAll(tab) ==
  /\ IsOpen(tab)
  /\ flight[tab] = Idle
  /\ Len(data[tab].items) > 0
  /\ \E o \in Outcomes :
       Cleared(tab, o.fm, o.rm, clearAll(store, nextId, now, o.fm, o.rm))

\* handleBeforeUnload(): this.saveData(), and the tab is gone
Unloaded(tab, fm, rm, s) ==
  /\ now <= MaxClock
  /\ s.writes < 2 => rm = "ok"
  /\ store' = s.store
  /\ data' = [data EXCEPT ![tab] = JsNull]
  /\ inbox' = [Notify(tab, STORAGE_KEY, Wrote(s, fm, rm)) EXCEPT ![tab] = {}]
  /\ now' = now + 1
  /\ last' = [op |-> "handleBeforeUnload", tab |-> tab, arg |-> fm]
  /\ UNCHANGED <<nextId, flight>>

CloseTab(tab) ==
  /\ IsOpen(tab)
  /\ flight[tab] = Idle
  /\ \E o \in Outcomes :
       Unloaded(tab, o.fm, o.rm, Save(store, data[tab], nextId, now, o.fm, o.rm))

\* handleStorageChange(event) for a waiting storage event
HandleStorageChange(tab) ==
  /\ IsOpen(tab)
  /\ flight[tab] = Idle
  /\ \E key \in inbox[tab] :
       /\ data' = [data EXCEPT ![tab] =
                     handleStorageChange(@, key, store, nextId, now)]
       /\ inbox' = [inbox EXCEPT ![tab] = @ \ {key}]
       /\ last' = [op |-> "handleStorageChange", tab |-> tab, arg |-> key,
                   before |-> data[tab]]
  /\ UNCHANGED <<store, now, nextId, flight>>

\* handleVisibilityChange() when the page has become visible
HandleVisibilityChange(tab) ==
  /\ IsOpen(tab)
  /\ flight[tab] = Idle
  /\ data' = [data EXCEPT ![tab] = Load(store, nextId, now).data]
  /\ last' = [op |-> "handleVisibilityChange", tab |-> tab, arg |-> JsNull]
  /\ UNCHANGED <<store, now, nextId, inbox, flight>>

TabNext ==
  \/ \E tab \in Tabs : OpenTab(tab)
  \/ \E tab \in Tabs : CloseTab(tab)
  \/ \E tab \in Tabs : AddTodos(tab)
  \/ \E tab \in Tabs : ToggleTodo(tab)
  \/ \E tab \in Tabs : DeleteTodo(tab)
  \/ \E tab \in Tabs : Finish(tab)
  \/ \E tab \in Tabs : HandleClearAll(tab)
  \/ \E tab \in Tabs : HandleStorageChange(tab)
  \/ \E tab \in Tabs : HandleVisibilityChange(tab)

TabSpec == Init /\ [][TabNext]_vars

(***************************************************************************)
(* One tab alone, or two tabs, over a store that may already hold more     *)
(* than QuotaThreshold items when the first tab is opened.                 *)
(***************************************************************************)
FullInit ==
  /\ store \in {NoValue, Stringify(BigDoc(QuotaThreshold + 1), 0)}
  /\ now = 1
  /\ nextId = 1
  /\ last = [op |-> "none"]
  /\ data = [tab \in Tabs |-> JsNull]
  /\ inbox = [tab \in Tabs |-> {}]
  /\ flight = [tab \in Tabs |-> Idle]

\* the only tab; no storage event reaches the tab that wrote
SoloTab == "A"

SoloNext ==
  \/ OpenTab(SoloTab)
  \/ CloseTab(SoloTab)
  \/ AddTodos(SoloTab)
  \/ ToggleTodo(SoloTab)
  \/ DeleteTodo(SoloTab)
  \/ Finish(SoloTab)
  \/ HandleClearAll(SoloTab)
  \/ HandleVisibilityChange(SoloTab)

SoloSpec == FullInit /\ [][SoloNext]_vars

\* The clock stands at its last reading at which a handler can start: one
\* more storage operation, and the writes have stopped
LiveInit ==
  /\ store \in {NoValue, Stringify(BigDoc(QuotaThreshold + 1), 0)}
  /\ now = MaxClock
  /\ nextId = 1
  /\ last = [op |-> "none"]
  /\ data = [tab \in Tabs |-> JsNull]
  /\ inbox = [tab \in Tabs |-> {}]
  /\ flight = [tab \in Tabs |-> Idle]

\* Two tabs under the scheduling of the browser: a storage event that waits
\* in a tab is delivered to its handler
LiveSpec ==
  /\ LiveInit
  /\ [][TabNext]_vars
  /\ \A tab \in Tabs : WF_vars(HandleStorageChange(tab))

(***************************************************************************)
(* load and save on any stored value. localStorage outlives the program    *)
(* and is writable by other scripts of the origin and by the user, so the  *)
(* value found under STORAGE_KEY may be anything; save accepts any         *)
(* argument.                                                               *)
(***************************************************************************)
\* a well-formed document of one item
SmallDoc ==
  [version |-> VERSION,
   items |-> <<[id |-> ImportedId, text |-> TextA, completed |-> FALSE,
                createdAt |-> 1]>>,
   lastUpdated |-> 1,
   settings |-> DefaultSettings]

\* a document holding nothing but items, two of them not objects
RawDoc ==
  [items |-> <<JsNumber,
               [id |-> ImportedId, text |-> TextA, completed |-> TRUE,
                createdAt |-> 1],
               JsNull>>]

\* the values localStorage.getItem(STORAGE_KEY) may return
StoredValues ==
  {NoValue, BadJson, Stringify(JsNull, 0), Stringify(JsNumber, 0),
   Stringify([version |-> VERSION], 0), Stringify([items_nonarray |-> TRUE], 0),
   Stringify(SmallDoc, 0), Stringify(RawDoc, 0), Stringify(MixedDoc, 0),
   Stringify(BigDoc(QuotaThreshold), 0), Stringify(BigDoc(QuotaThreshold + 1), 0)}

\* the arguments of save
SaveDocs ==
  {JsNull, JsUndefined, [version |-> VERSION], [items_nonarray |-> TRUE],
   SmallDoc, RawDoc}

RawInit ==
  /\ store \in StoredValues
  /\ now = 1
  /\ nextId = 1
  /\ last = [op |-> "none"]
  /\ data = [tab \in Tabs |-> JsNull]
  /\ inbox = [tab \in Tabs |-> {}]
  /\ flight = [tab \in Tabs |-> Idle]

LoadCall ==
  Call("load", JsNull, JsNull, "ok", "ok",
       loadCall(store, Load(store, nextId, now)))

SaveCall ==
  \E document \in SaveDocs, o \in Outcomes :
    Call("save", document, JsNull, o.fm, o.rm,
         saveCall(store, document, nextId, now, o.fm, o.rm))

RawNext ==
  \/ LoadCall
  \/ SaveCall

RawSpec == RawInit /\ [][RawNext]_vars

(***************************************************************************)
(* InputProcessor called directly: a raw text is drawn, and sanitizeItem or *)
(* parseInput is applied to it.                                            *)
(***************************************************************************)
\* a letter, two whitespace characters and the delimiters
RawChars == {"a", " ", "\t"} \cup Delimiters

\* every string of at most MaxRawLen of these characters
ShortTexts == UNION {[1..k -> RawChars] : k \in 0..MaxRawLen}

\* 201 letters
LongWord == [i \in 1..(MaxTextLen + 1) |-> "a"]

\* a long segment, a delimiter and a short segment
LongCommaText == LongText \o <<",">> \o Messy

RawTexts ==
  ShortTexts \cup {NotAString, Blank, Messy, CommaText, LongText, LongWord,
                   LongCommaText}

TextInit ==
  /\ store = NoValue
  /\ now = 1
  /\ nextId = 1
  /\ \E text \in RawTexts : last = [op |-> "input", arg |-> text]
  /\ data = [tab \in Tabs |-> JsNull]
  /\ inbox = [tab \in Tabs |-> {}]
  /\ flight = [tab \in Tabs |-> Idle]

SanitizeItemCall ==
  /\ last.op = "input"
  /\ last' = [op |-> "sanitizeItem", arg |-> last.arg,
              ret |-> sanitizeItem(last.arg)]
  /\ UNCHANGED <<store, now, nextId, data, inbox, flight>>

ParseInputCall ==
  /\ last.op = "input"
  /\ last' = [op |-> "parseInput", arg |-> last.arg,
              ret |-> parseInput(last.arg)]
  /\ UNCHANGED <<store, now, nextId, data, inbox, flight>>

TextNext ==
  \/ SanitizeItemCall
  \/ ParseInputCall

TextSpec == TextInit /\ [][TextNext]_vars

(***************************************************************************)
(* Helpers of the properties                                               *)
(***************************************************************************)
\* the call recorded in last wrote, or tried to write, the document of store
\* (exportThenImport writes to another store)
StoreOps == {"addItem", "addItems", "updateItem", "deleteItem", "clearAll",
             "importData"}

\* some text of the batch sanitizes to a non-empty string
SomeNonEmpty(texts) == \E i \in 1..Len(texts) : sanitizeItem(texts[i]) # <<>>

\* the items addItems builds for texts, from identifier nid at time t
ExpectedNew(texts, nid, t) ==
  LET sanitizedAll == [i \in 1..Len(texts) |-> sanitizeItem(texts[i])]
      kept == SelectSeq(sanitizedAll, IsNonEmpty)
  IN [k \in 1..Len(kept) |-> [id |-> nid + k - 1, text |-> kept[k],
                              completed |-> FALSE, createdAt |-> t]]

(***************************************************************************)
(* C1                                                                      *)
(***************************************************************************)
\* C1 as stated: addItems on a sequence of texts performs exactly one load,
\* and exactly one storage write when some text sanitizes to a non-empty
\* string, none (returning the empty sequence) otherwise.
C1_OneLoadOneWrite ==
  (last.op = "addItems" /\ last.arg.jstype = "array") =>
    /\ last.loads = 1
    /\ last.writes = (IF SomeNonEmpty(last.arg.elems) THEN 1 ELSE 0)
    /\ ~SomeNonEmpty(last.arg.elems) => last.ret = RetItems(<<>>)

\* C1 amended: addItems itself calls load once and save at most once, exactly
\* once when some text sanitizes to a non-empty string and never otherwise
\* (then it returns the empty sequence and writes nothing); the save writes
\* once, and only when it fails with quota-exceeded the recovery adds one
\* load and at most one write.
C1_OneLoadOneSave ==
  (last.op = "addItems" /\ last.arg.jstype = "array") =>
    IF SomeNonEmpty(last.arg.elems)
    THEN /\ last.saves = 1
         /\ last.fm # "quota" => last.loads = 1 /\ last.writes = 1
         /\ last.fm = "quota" => last.loads = 2 /\ last.writes \in {1, 2}
    ELSE /\ last.saves = 0
         /\ last.loads = 1
         /\ last.writes = 0
         /\ last.ret = RetItems(<<>>)

\* a batch of two items whose save failed with quota-exceeded
C1_Witness ==
  /\ last.op = "addItems"
  /\ last.fm = "quota"
  /\ last.ret.kind = "items"
  /\ Len(last.ret.val) = 2
  /\ last.loads = 2

(***************************************************************************)
(* C2                                                                      *)
(***************************************************************************)
\* C2: after addItems(texts) the stored items are the previous items followed
\* by one new item (completed = false, fresh id) for each text whose
\* sanitized form is non-empty, in input order, and the returned sequence is
\* exactly those new items.
C2_ReturnedArePersisted ==
  [][(last'.op = "addItems" /\ last'.arg.jstype = "array") =>
       LET new == ExpectedNew(last'.arg.elems, nextId, now)
       IN /\ last'.ret = RetItems(new)
          /\ StoredItems(store') = StoredItems(store) \o new
          /\ IdsOf(new) \cap IdsOf(StoredItems(store)) = {}]_vars

(***************************************************************************)
(* C3                                                                      *)
(***************************************************************************)
\* C3: no public operation of the store lets an exception reach its caller.
C3_NoThrow == last.op # "none" => last.ret.kind # "throw"

(***************************************************************************)
(* C4, C5                                                                  *)
(***************************************************************************)
\* C4: every stored item has non-empty text.
C4_NonEmptyText ==
  \A i \in 1..Len(StoredItems(store)) : StoredItems(store)[i].text # <<>>

\* C5: no two stored items have the same id.
C5_UniqueIds ==
  \A i, j \in 1..Len(StoredItems(store)) :
    i # j => StoredItems(store)[i].id # StoredItems(store)[j].id

(***************************************************************************)
(* C6                                                                      *)
(***************************************************************************)
\* a call whose save on the document of store failed with quota-exceeded
\* while more than QuotaThreshold items were stored
QuotaFailureOnLargeStore ==
  /\ last'.op \in StoreOps
  /\ last'.saves = 1
  /\ last'.fm = "quota"
  /\ Len(StoredItems(store)) > QuotaThreshold

\* identity and creation time of an item
Key(item) == <<item.id, item.createdAt>>

\* kept holds KeepRecent distinct items of prev (by id and createdAt), none
\* of them created before an item of prev that was not kept
MostRecentOf(prev, kept) ==
  /\ Len(kept) = KeepRecent
  /\ \A i, j \in 1..Len(kept) : i # j => Key(kept[i]) # Key(kept[j])
  /\ \A k \in 1..Len(kept) : \E i \in 1..Len(prev) : Key(prev[i]) = Key(kept[k])
  /\ \A i \in 1..Len(prev) :
       (\A k \in 1..Len(kept) : Key(kept[k]) # Key(prev[i])) =>
       \A k \in 1..Len(kept) : kept[k].createdAt >= prev[i].createdAt

\* C6 as stated: when a save fails with quota-exceeded while the store holds
\* more than 100 items, the store afterwards holds at most 50 items, the 50
\* of the previously stored document with the most recent createdAt.
C6_PrunedToFifty ==
  [][QuotaFailureOnLargeStore =>
       /\ Len(StoredItems(store')) <= KeepRecent
       /\ MostRecentOf(StoredItems(store), StoredItems(store'))]_vars

\* C6 amended: when a save fails with quota-exceeded while the store holds
\* more than 100 items and the recovery's own write succeeds, the store
\* afterwards holds exactly 50 items, the 50 of the previously stored
\* document with the most recent createdAt; when the recovery's write fails
\* too, the stored document is left as it was.
C6_PrunedUnlessRecoveryFails ==
  [][QuotaFailureOnLargeStore =>
       IF last'.rm = "ok"
       THEN MostRecentOf(StoredItems(store), StoredItems(store'))
       ELSE store' = store]_vars

\* a quota failure on a large store after which the recovery wrote 50 items
C6_Witness ==
  /\ last.op \in StoreOps
  /\ last.fm = "quota"
  /\ last.rm = "ok"
  /\ last.writes = 2
  /\ Len(StoredItems(store)) = KeepRecent

(***************************************************************************)
(* C7                                                                      *)
(***************************************************************************)
\* addItem or addItems whose save failed with quota-exceeded
QuotaFailureOnAdd ==
  /\ last'.op \in {"addItem", "addItems"}
  /\ last'.saves = 1
  /\ last'.fm = "quota"

\* fewer than KeepRecent items of all are at least as recent as item
AmongMostRecent(item, all) ==
  Cardinality({i \in 1..Len(all) : all[i].createdAt >= item.createdAt})
    <= KeepRecent

\* C7 as stated: when the save of an add fails with quota-exceeded and the
\* recovery prunes the store, a new item that is among the 50 most recently
\* created is in the stored document after the recovery.
C7_RecentNewItemKept ==
  [][(QuotaFailureOnAdd /\ last'.writes = 2 /\ last'.rm = "ok") =>
       \A k \in 1..Len(last'.made) :
         AmongMostRecent(last'.made[k], StoredItems(store) \o last'.made) =>
         last'.made[k] \in Range(StoredItems(store'))]_vars

\* C7 amended: when the save of an add fails with quota-exceeded, the item
\* being added is never in the stored document afterwards, pruned or not and
\* however recent it is: the recovery reloads and prunes the document stored
\* before the call, which does not hold the new item.
C7_NewItemAlwaysLost ==
  [][QuotaFailureOnAdd =>
       \A k \in 1..Len(last'.made) :
         last'.made[k].id \notin IdsOf(StoredItems(store'))]_vars

\* an add whose save failed with quota-exceeded and whose recovery pruned
C7_Witness ==
  /\ last.op \in {"addItem", "addItems"}
  /\ last.fm = "quota"
  /\ last.rm = "ok"
  /\ last.writes = 2
  /\ Len(last.made) > 0
  /\ Len(StoredItems(store)) = KeepRecent

(***************************************************************************)
(* C8 (under TabSpec)                                                      *)
(***************************************************************************)
\* C8: last write wins. When a tab's save succeeds, the stored document holds
\* only items that the tab's own load returned or that the tab built itself:
\* whatever another tab saved between that load and this save is overwritten,
\* though no operation deleted it.
C8_LastWriteWins ==
  [][(last'.op = "finish" /\ last'.fm = "ok") =>
       /\ IdsOf(StoredItems(store')) \subseteq
            IdsOf(flight[last'.tab].l.data.items) \cup IdsOf(last'.made)
       /\ last'.unseen \cap IdsOf(StoredItems(store')) = {}]_vars

\* tab A's save succeeded, tab B's save, computed from a load taken before
\* it, succeeded later, and an item A had stored is absent from the stored
\* document although B's operation was no deletion and A still shows the item
C8_Witness ==
  /\ last.op = "finish"
  /\ last.fm = "ok"
  /\ last.arg \in {"addItems", "updateItem"}
  /\ last.unseen # {}
  /\ \E tab \in Tabs \ {last.tab} :
       /\ IsOpen(tab)
       /\ last.unseen \subseteq IdsOf(data[tab].items)

(***************************************************************************)
(* C9 (under TabSpec)                                                      *)
(***************************************************************************)
\* C9: when a tab handles a storage event whose key is STORAGE_KEY, its
\* in-memory copy becomes the document currently in storage, whatever it
\* held before; a storage event for any other key leaves the copy unchanged.
C9_ReloadOnStoreKey ==
  [][last'.op = "handleStorageChange" =>
       IF last'.arg = STORAGE_KEY
       THEN /\ data'[last'.tab].items = StoredItems(store)
            /\ Parses(store) => data'[last'.tab] = Parse(store)
       ELSE data'[last'.tab] = data[last'.tab]]_vars

\* a tab handled an event for STORAGE_KEY while holding an item that the
\* stored document no longer had, and the item is gone from its copy
C9_Witness ==
  /\ last.op = "handleStorageChange"
  /\ last.arg = STORAGE_KEY
  /\ Parses(store)
  /\ IdsOf(last.before.items) \ IdsOf(StoredItems(store)) # {}
  /\ data[last.tab] = Parse(store)

\* a tab handled an event for another key while its copy differed from the
\* stored document, and kept its copy
C9_WitnessOtherKey ==
  /\ last.op = "handleStorageChange"
  /\ last.arg # STORAGE_KEY
  /\ data[last.tab] = last.before
  /\ data[last.tab].items # StoredItems(store)

(***************************************************************************)
(* C10                                                                     *)
(***************************************************************************)
\* a sanitized text: 1 to 200 characters, no whitespace at either end, no
\* whitespace but single spaces
CleanText(s) ==
  /\ Len(s) \in 1..MaxTextLen
  /\ \A i \in 1..Len(s) : IsWs(s[i]) => s[i] = " "
  /\ ~IsWs(s[1])
  /\ ~IsWs(s[Len(s)])
  /\ \A i \in 1..(Len(s) - 1) : ~(IsWs(s[i]) /\ IsWs(s[i + 1]))

ValidItem(item) ==
  /\ DOMAIN item = {"id", "text", "completed", "createdAt"}
  /\ item.id # 0
  /\ CleanText(item.text)
  /\ item.createdAt # 0

\* the store holds a valid collection document, or none
ValidCollection(st) ==
  \A i \in 1..Len(StoredItems(st)) : ValidItem(StoredItems(st)[i])

\* C10: for a valid collection document held by a store,
\* importData(exportData()) applied to a fresh store succeeds (the write not
\* failing) and leaves it with the same items in the same order, each with
\* the same id, text, completed and createdAt.
C10_ExportImportRoundTrip ==
  [][(last'.op = "exportThenImport" /\ last'.fm = "ok" /\ ValidCollection(store)) =>
       /\ last'.ret = RetBool(TRUE)
       /\ StoredItems(store') = StoredItems(store)]_vars

\* a round trip that carried two valid items over
C10_Witness ==
  /\ last.op = "exportThenImport"
  /\ last.ret = RetBool(TRUE)
  /\ Len(StoredItems(store)) >= 2
  /\ ValidCollection(store)

(***************************************************************************)
(* C11, C12                                                                *)
(***************************************************************************)
\* C11: updateItem(id, updates) with an id that no stored item has returns
\* null and performs no storage write: the stored document, lastUpdated
\* included, is unchanged.
C11_UpdateMissingNoWrite ==
  [][(last'.op = "updateItem" /\ last'.arg \notin IdsOf(StoredItems(store))) =>
       /\ last'.ret = RetNull
       /\ last'.saves = 0
       /\ last'.writes = 0
       /\ store' = store]_vars

\* updateItem with an id that none of the stored items has, on a store that
\* holds items
C11_Witness ==
  /\ last.op = "updateItem"
  /\ Len(StoredItems(store)) > 0
  /\ last.arg \notin IdsOf(StoredItems(store))
  /\ last.ret = RetNull
  /\ last.writes = 0

\* C12: deleteItem(id) with an id that no stored item has returns false and
\* performs no storage write: the stored document, lastUpdated included, is
\* unchanged.
C12_DeleteMissingNoWrite ==
  [][(last'.op = "deleteItem" /\ last'.arg \notin IdsOf(StoredItems(store))) =>
       /\ last'.ret = RetBool(FALSE)
       /\ last'.saves = 0
       /\ last'.writes = 0
       /\ store' = store]_vars

\* deleteItem with an id that none of the stored items has, on a store that
\* holds items
C12_Witness ==
  /\ last.op = "deleteItem"
  /\ Len(StoredItems(store)) > 0
  /\ last.arg \notin IdsOf(StoredItems(store))
  /\ last.ret = RetBool(FALSE)
  /\ last.writes = 0

(***************************************************************************)
(* C13, C14 (under RawSpec)                                                *)
(***************************************************************************)
\* the arguments of save that are no document or whose items is no array
NotADocument ==
  {JsNull, JsUndefined, [version |-> VERSION], [items_nonarray |-> TRUE]}

\* C13: save(document) with a document whose items field is not a sequence,
\* or with no document, returns false without throwing and without any
\* storage write or quota recovery; the stored value is unchanged.
C13_SaveRejectsInvalid ==
  [][(last'.op = "save" /\ last'.arg \in NotADocument) =>
       /\ last'.ret = RetBool(FALSE)
       /\ last'.writes = 0
       /\ last'.loads = 0
       /\ store' = store]_vars

\* save of a document without an items array on a store that holds a document
C13_Witness ==
  /\ last.op = "save"
  /\ last.arg = [items_nonarray |-> TRUE]
  /\ last.ret = RetBool(FALSE)
  /\ Len(StoredItems(store)) > 0

\* the stored value is absent, unparseable, or has no items array
NoStoredItems(st) ==
  \/ st = NoValue
  \/ st = BadJson
  \/ Parse(st) \in {JsNull, JsNumber}
  \/ "items" \notin DOMAIN Parse(st)

\* neither null nor a number
IsObjectItem(item) == "jstype" \notin DOMAIN item

\* C14: load never fails and never writes. When the stored value is absent,
\* unparseable or without an items array it returns a fresh default document
\* with zero items; otherwise it returns one item for each stored item that
\* is an object, in stored order, keeping the id of an item that has one and
\* returning a well-formed item as it is stored. The stored value is left
\* unchanged.
C14_LoadTotalNoWrite ==
  [][last'.op = "load" =>
       /\ last'.ret.kind = "doc"
       /\ last'.writes = 0
       /\ store' = store
       /\ IF NoStoredItems(store)
          THEN last'.ret.val = [version |-> VERSION, items |-> <<>>,
                                lastUpdated |-> now, settings |-> DefaultSettings]
          ELSE LET kept == SelectSeq(Parse(store).items, IsObjectItem)
                   got == last'.ret.val.items
               IN /\ Len(got) = Len(kept)
                  /\ \A k \in 1..Len(kept) :
                       /\ IsObjectItem(got[k])
                       /\ ("id" \in DOMAIN kept[k] /\ kept[k].id # 0) =>
                            got[k].id = kept[k].id
                       /\ ValidItem(kept[k]) => got[k] = kept[k]]_vars

\* load of a stored document that holds a number, an item and null returned
\* the item alone
C14_Witness ==
  /\ last.op = "load"
  /\ store = Stringify(RawDoc, 0)
  /\ Len(last.ret.val.items) = 1
  /\ last.ret.val.items[1].id = ImportedId

\* load of an unparseable value returned an empty default document
C14_WitnessUnparseable ==
  /\ last.op = "load"
  /\ store = BadJson
  /\ last.ret.val.items = <<>>

(***************************************************************************)
(* C15                                                                     *)
(***************************************************************************)
\* the text sanitizes to the empty string: not a string, or whitespace only
SanitizesToEmpty(text) ==
  text = NotAString \/ \A i \in 1..Len(text) : text[i] \in WhiteSpace

\* C15: addItem(text) returns null without reading or writing storage when
\* the sanitized text is empty; otherwise it returns the created item if and
\* only if the save succeeded, the item then being stored, and null when the
\* write fails, the item then not being stored.
C15_AddItemResult ==
  [][last'.op = "addItem" =>
       IF SanitizesToEmpty(last'.arg)
       THEN /\ last'.ret = RetNull
            /\ last'.loads = 0
            /\ last'.writes = 0
            /\ store' = store
       ELSE /\ last'.ret # RetNull <=> last'.fm = "ok"
            /\ last'.fm = "ok" =>
                 /\ last'.ret.kind = "item"
                 /\ last'.ret.val.id = nextId
                 /\ ~last'.ret.val.completed
                 /\ last'.ret.val.createdAt = now
                 /\ Len(StoredItems(store')) = Len(StoredItems(store)) + 1
                 /\ StoredItems(store')[Len(StoredItems(store'))] = last'.ret.val
            /\ last'.fm # "ok" =>
                 nextId \notin IdsOf(StoredItems(store'))]_vars

\* addItem of a non-empty text whose write failed returned null
C15_Witness ==
  /\ last.op = "addItem"
  /\ ~SanitizesToEmpty(last.arg)
  /\ last.fm = "error"
  /\ last.ret = RetNull
  /\ last.writes = 1

\* addItem of a non-empty text whose write succeeded returned the stored item
C15_WitnessStored ==
  /\ last.op = "addItem"
  /\ last.fm = "ok"
  /\ last.ret.kind = "item"
  /\ last.ret.val \in Range(StoredItems(store))

(***************************************************************************)
(* C16                                                                     *)
(***************************************************************************)
\* the text is no JSON, or its value has no items array
NotImportable(txt) ==
  \/ txt = BadJson
  \/ "items" \notin DOMAIN Parse(txt)

\* C16: importData returns false and leaves the stored document unchanged
\* when the text is not valid JSON or the parsed value lacks an items array;
\* on valid input, the write succeeding, it returns true and stores the
\* imported document with every null or non-object item dropped: one item
\* for each object, in order, with the object's id when it has one, a
\* well-formed item as imported, and the imported settings.
C16_ImportResult ==
  [][last'.op = "importData" =>
       IF NotImportable(last'.arg)
       THEN /\ last'.ret = RetBool(FALSE)
            /\ last'.writes = 0
            /\ store' = store
       ELSE /\ last'.ret = RetBool(last'.fm = "ok")
            /\ last'.fm = "ok" =>
                 LET src == Parse(last'.arg)
                     kept == SelectSeq(src.items, IsObjectItem)
                     got == StoredItems(store')
                 IN /\ Len(got) = Len(kept)
                    /\ \A k \in 1..Len(kept) :
                         /\ IsObjectItem(got[k])
                         /\ ("id" \in DOMAIN kept[k] /\ kept[k].id # 0) =>
                              got[k].id = kept[k].id
                         /\ ValidItem(kept[k]) => got[k] = kept[k]
                    /\ "settings" \in DOMAIN src =>
                         Parse(store').settings = src.settings]_vars

\* an import of a document with a null item that stored the three objects
C16_Witness ==
  /\ last.op = "importData"
  /\ last.arg = Stringify(MixedDoc, 2)
  /\ last.ret = RetBool(TRUE)
  /\ Len(StoredItems(store)) = 3

\* an import of unparseable text over a stored document
C16_WitnessRejected ==
  /\ last.op = "importData"
  /\ last.arg = BadJson
  /\ last.ret = RetBool(FALSE)
  /\ Len(StoredItems(store)) > 0

(***************************************************************************)
(* C17 (under RawSpec)                                                     *)
(***************************************************************************)
\* the number of items of the stored document, 0 when it has no items array
StoredCount(st) ==
  IF NoStoredItems(st) THEN 0 ELSE Len(Parse(st).items)

\* C17: a save of a document changes the stored value after a failed write
\* only when the write failed with quota-exceeded and the stored document
\* holds more than 100 items: a write that fails otherwise, or a quota failure
\* with 100 or fewer stored items, leaves the stored value unchanged; in all
\* these cases, the pruning one included, save returns false.
C17_RecoveryOnlyOnQuotaOverThreshold ==
  [][(last'.op = "save" /\ last'.arg \notin NotADocument /\ last'.fm # "ok") =>
       /\ last'.ret = RetBool(FALSE)
       /\ (last'.fm = "error" \/ StoredCount(store) <= QuotaThreshold) =>
            store' = store
       /\ store' # store =>
            last'.fm = "quota" /\ StoredCount(store) > QuotaThreshold]_vars

\* a quota failure on a store of exactly 100 items left it as it was
C17_Witness ==
  /\ last.op = "save"
  /\ last.fm = "quota"
  /\ last.ret = RetBool(FALSE)
  /\ last.loads = 1
  /\ last.writes = 1
  /\ StoredCount(store) = QuotaThreshold

\* a quota failure on a store of 101 items pruned it, save returning false
C17_WitnessPruned ==
  /\ last.op = "save"
  /\ last.fm = "quota"
  /\ last.ret = RetBool(FALSE)
  /\ last.writes = 2
  /\ last.rm = "ok"
  /\ StoredCount(store) = KeepRecent

(***************************************************************************)
(* C18                                                                     *)
(***************************************************************************)
\* the ids of the items, in order
IdSeq(items) == [i \in 1..Len(items) |-> items[i].id]

\* C18 as stated: updateItem(id, updates) on an existing id never changes
\* the item's identity: whatever id `updates` carries, the returned item has
\* the original id, and the number of stored items is unchanged.
C18_CountUnchanged ==
  [][(last'.op = "updateItem" /\ last'.arg \in IdsOf(StoredItems(store))) =>
       /\ last'.ret.kind = "item" => last'.ret.val.id = last'.arg
       /\ Len(StoredItems(store')) = Len(StoredItems(store))]_vars

\* C18: updateItem(id, updates) on an existing id never changes the item's
\* identity: whatever id `updates` carries, the returned item has the
\* original id, after a successful write the stored items have the same ids
\* at the same places (so their number is unchanged), no id is ever stored
\* that was not stored before, and the number of stored items changes only
\* when the write fails on quota with more than 100 items stored.
C18_UpdateKeepsIdentity ==
  [][(last'.op = "updateItem" /\ last'.arg \in IdsOf(StoredItems(store))) =>
       /\ last'.ret.kind = "item" => last'.ret.val.id = last'.arg
       /\ last'.fm = "ok" =>
            IdSeq(StoredItems(store')) = IdSeq(StoredItems(store))
       /\ IdsOf(StoredItems(store')) \subseteq IdsOf(StoredItems(store))
       /\ Len(StoredItems(store')) # Len(StoredItems(store)) =>
            last'.fm = "quota" /\ Len(StoredItems(store)) > QuotaThreshold]_vars

\* an update carrying another id was stored and returned under the original id
C18_Witness ==
  /\ last.op = "updateItem"
  /\ "id" \in DOMAIN last.arg2
  /\ last.arg2.id # last.arg
  /\ last.fm = "ok"
  /\ last.ret.kind = "item"
  /\ last.ret.val.id = last.arg
  /\ last.ret.val \in Range(StoredItems(store))

(***************************************************************************)
(* C19                                                                     *)
(***************************************************************************)
\* the createdAt values stored under id
CreatedAtOf(items, id) ==
  {items[i].createdAt : i \in {k \in 1..Len(items) : items[k].id = id}}

\* C19: createdAt is immutable: no updateItem, addItem, addItems or
\* deleteItem call changes the createdAt stored for an id that is stored
\* before and after it.
C19_CreatedAtImmutable ==
  [][last'.op \in {"updateItem", "addItem", "addItems", "deleteItem"} =>
       \A id \in IdsOf(StoredItems(store)) \cap IdsOf(StoredItems(store')) :
         CreatedAtOf(StoredItems(store'), id) = CreatedAtOf(StoredItems(store), id)]_vars

(***************************************************************************)
(* C20                                                                     *)
(***************************************************************************)
\* a place of id in items
PlaceOf(items, id) == CHOOSE i \in 1..Len(items) : items[i].id = id

\* the items of after that before holds too stand in the order they have in
\* before, and ahead of every item that before does not hold
KeepsOrder(before, after) ==
  \A p \in 1..(Len(after) - 1) :
    IF after[p].id \in IdsOf(before)
    THEN after[p + 1].id \in IdsOf(before) =>
           PlaceOf(before, after[p].id) <= PlaceOf(before, after[p + 1].id)
    ELSE after[p + 1].id \notin IdsOf(before)

\* C20: the stored items are always in insertion order: a call that adds,
\* updates or deletes items, its save triggering the quota recovery or not,
\* leaves the items stored before in their order and puts the items it adds
\* behind them.
C20_InsertionOrder ==
  [][last'.op \in {"updateItem", "addItem", "addItems", "deleteItem"} =>
       KeepsOrder(StoredItems(store), StoredItems(store'))]_vars

(***************************************************************************)
(* C22                                                                     *)
(***************************************************************************)
\* s has no whitespace at either end, no two whitespace characters in a row
\* and no whitespace character but the space
Normalized(s) ==
  /\ s # <<>> => ~IsWs(s[1]) /\ ~IsWs(s[Len(s)])
  /\ \A i \in 1..(Len(s) - 1) : ~(IsWs(s[i]) /\ IsWs(s[i + 1]))
  /\ \A i \in 1..Len(s) : IsWs(s[i]) => s[i] = " "

\* C22: for every input string the result of sanitizeItem has at most 200
\* characters, no leading or trailing whitespace and no run of two or more
\* whitespace characters, every whitespace run having become one space;
\* non-string or empty input gives the empty string.
C22_SanitizedShape ==
  last.op = "sanitizeItem" =>
    /\ Len(last.ret) <= MaxTextLen
    /\ Normalized(last.ret)
    /\ last.arg \in {NotAString, <<>>} => last.ret = <<>>

(***************************************************************************)
(* C23                                                                     *)
(***************************************************************************)
\* the places of the delimiters of text, with the places before its first
\* and after its last character
Cuts(text) ==
  {0, Len(text) + 1} \cup {i \in 1..Len(text) : text[i] \in Delimiters}

\* the segments between neighbouring cuts, in the order of the text
Segments(text) ==
  LET cuts == Cuts(text)
      Nth(k) == CHOOSE c \in cuts : Cardinality({d \in cuts : d < c}) = k - 1
  IN [k \in 1..(Cardinality(cuts) - 1) |->
        SubSeq(text, Nth(k) + 1, Nth(k + 1) - 1)]

\* C23: for every raw string holding any mix of the delimiters, parseInput
\* returns exactly the non-empty sanitized segments between the delimiters
\* in their order (none for a string of delimiters and whitespace only); a
\* string without a delimiter gives at most one item, the whole sanitized
\* string, and is never split on its spaces; non-string or empty input
\* gives an empty sequence.
C23_ParsedSegments ==
  last.op = "parseInput" =>
    /\ last.arg \in {NotAString, <<>>} => last.ret = <<>>
    /\ last.arg # NotAString =>
         /\ last.ret = SanitizedKept(Segments(last.arg))
         /\ ~HasDelimiter(last.arg) =>
              /\ Len(last.ret) <= 1
              /\ Len(last.ret) = 1 => last.ret[1] = sanitizeItem(last.arg)
         /\ (\A i \in 1..Len(last.arg) :
               last.arg[i] \in Delimiters \cup WhiteSpace) => last.ret = <<>>

\* a text mixing two different delimiters, with a blank segment between
\* them, was parsed to its two items
C23_Witness ==
  /\ last.op = "parseInput"
  /\ last.arg = CommaText
  /\ last.ret = <<TextA, TextB>>

\* a text of spaces and letters without a delimiter was parsed to one item
C23_WitnessNoDelimiter ==
  /\ last.op = "parseInput"
  /\ last.arg = Messy
  /\ last.ret = <<<<"a", " ", "b">>>>

(***************************************************************************)
(* C21                                                                     *)
(***************************************************************************)
\* the call recorded in last was an addItem, addItems, updateItem or
\* deleteItem that wrote the document
Succeeded(l) ==
  /\ l.op \in {"addItem", "addItems", "updateItem", "deleteItem"}
  /\ l.writes = 1
  /\ l.fm = "ok"

\* before without the items of the given id
Without(before, id) ==
  LET OtherId(item) == item.id # id
  IN SelectSeq(before, OtherId)

\* C21: a successful addItem, addItems, updateItem or deleteItem leaves the
\* settings of the document unchanged and every item but the added, updated
\* or deleted one unchanged, in the same relative order.
C21_OtherItemsUnchanged ==
  [][Succeeded(last') =>
       /\ Parses(store) => Parse(store').settings = Parse(store).settings
       /\ last'.op \in {"addItem", "addItems"} =>
            StoredItems(store') = StoredItems(store) \o last'.made
       /\ last'.op = "updateItem" =>
            /\ Len(StoredItems(store')) = Len(StoredItems(store))
            /\ \A i \in 1..Len(StoredItems(store)) :
                 i # FindIndex(StoredItems(store), last'.arg) =>
                   StoredItems(store')[i] = StoredItems(store)[i]
       /\ last'.op = "deleteItem" =>
            StoredItems(store') = Without(StoredItems(store), last'.arg)]_vars

(***************************************************************************)
(* C27                                                                     *)
(***************************************************************************)
\* C27: stored items are stable under re-validation: sanitizeItem applied to
\* the text of an item written by addItem or addItems gives that text again,
\* so a later load returns the stored items with exactly the stored texts
\* and the save of the loaded document stores the same items.
C27_StableUnderRevalidation ==
  (last.op \in {"addItem", "addItems"} /\ last.writes = 1 /\ last.fm = "ok") =>
    /\ \A i \in 1..Len(last.made) :
         sanitizeItem(last.made[i].text) = last.made[i].text
    /\ Load(store, nextId, now).data.items = StoredItems(store)
    /\ StoredItems(Save(store, Load(store, nextId, now).data, nextId, now,
                        "ok", "ok").store) = StoredItems(store)

(***************************************************************************)
(* C24                                                                     *)
(***************************************************************************)
\* C24: in a single tab with no other writer, after each handler (add,
\* toggle, delete, clear all) has run to completion, the tab's in-memory
\* copy holds exactly the items of the stored document, also when the save
\* failed on quota and the recovery pruned the store.
C24_CopyMatchesStore ==
  (/\ IsOpen(SoloTab)
   /\ flight[SoloTab] = Idle
   /\ last.op \in {"begin", "finish", "handleClearAll"}) =>
    data[SoloTab].items = StoredItems(store)

(***************************************************************************)
(* C25                                                                     *)
(***************************************************************************)
\* C25: the save of the in-memory copy that a tab makes on page unload
\* never removes or reverts a change another tab has persisted: every item
\* stored before the unload, such as the items another tab added, is stored
\* after it, whether or not the closing tab has handled the storage event.
C25_UnloadKeepsStoredItems ==
  [][last'.op = "handleBeforeUnload" =>
       Range(StoredItems(store)) \subseteq Range(StoredItems(store'))]_vars

(***************************************************************************)
(* C26                                                                     *)
(***************************************************************************)
\* no handler is in progress and none that writes can start any more
WritesStopped ==
  /\ now > MaxClock
  /\ \A tab \in Tabs : flight[tab] = Idle

\* every open tab's copy holds exactly the stored items
Converged ==
  \A tab \in Tabs : IsOpen(tab) => data[tab].items = StoredItems(store)

\* C26: convergence across tabs: once the writes to the stored document have
\* stopped, every storage event being delivered to the tabs other than its
\* writer, eventually every open tab's in-memory copy holds exactly the
\* items of the stored document.
C26_Convergence == WritesStopped ~> Converged

====
